---- MODULE Spec2Model ----
(***************************************************************************)
(* Model of the tray controller of src-tauri/src/lib.rs: the setup closure *)
(* that builds six menu items, the menu and the tray icon, and the         *)
(* on_menu_event closure that dispatches a clicked menu identifier to      *)
(* show / hide / emit on webview window "main" or to app.exit(0).          *)
(*                                                                         *)
(* The tauri calls are modelled by their API contract:                     *)
(*   get_webview_window(label)  Option: Some iff a window of that label    *)
(*                              exists at the moment of the call;          *)
(*   window.show / window.hide  Result: Ok changes the visibility, Err     *)
(*                              leaves it as it was;                       *)
(*   window.emit(event, ())     Result: Ok delivers the event, with the    *)
(*                              serialised unit payload, to every event    *)
(*                              target (tauri 2 Emitter::emit is global);  *)
(*                              Err delivers nothing;                      *)
(*   app.exit(0)                ends the process with that exit code.      *)
(* The windows themselves, the login-item registration, the click-through  *)
(* mode and the window position belong to the window layer, which is the   *)
(* environment of this model.                                              *)
(***************************************************************************)
EXTENDS Integers, Sequences, FiniteSets, TLC

\* Bound on the number of menu clicks dispatched in one run.
MaxDispatch == 3

\* Labels of the webview windows that may exist; "main" is the one the
\* handler looks up, "aux" stands for any other window of the application.
Labels == {"main", "aux"}

\* The unit payload () as the event system serialises it.
Unit == "null"

\* The let-bound menu items of the setup closure.
show == [id |-> "show", text |-> "Show", enabled |-> TRUE]
hide == [id |-> "hide", text |-> "Hide", enabled |-> TRUE]
click_through ==
    [id |-> "click_through", text |-> "Toggle Click-Through", enabled |-> TRUE]
reset_pos == [id |-> "reset_pos", text |-> "Reset Position", enabled |-> TRUE]
autostart == [id |-> "autostart", text |-> "Start at Login", enabled |-> TRUE]
quit == [id |-> "quit", text |-> "Quit", enabled |-> TRUE]

\* The items in the order the setup closure creates them.
ItemOrder == <<show, hide, click_through, reset_pos, autostart, quit>>

\* The identifiers a menu event can carry: the six of the menu and one that
\* no arm of the match names (an event of some other menu of the process).
EventIds == {"show", "hide", "click_through", "reset_pos", "autostart", "quit",
             "other"}

\* The identifiers whose arm emits a notification.
EmitIds == {"click_through", "reset_pos", "autostart"}

VARIABLES
    pc,          \* "setup", "running", "exited" or "aborted"
    plugins,     \* plugins registered on the builder
    items,       \* menu items created so far by the setup closure
    menu,        \* items of the built menu, <<>> before it is built
    tray,        \* menu attached to the built tray icon, <<>> before
    windows,     \* labels of the webview windows that exist
    visible,     \* labels of the windows that are shown
    inbox,       \* per label, the notifications delivered to that window
    exitCode,    \* <<>> while the process lives, <<code>> after exit
    loginItem,   \* OS login-item registration (window layer / OS)
    clickMode,   \* click-through mode of the window (window layer)
    position,    \* window position, "saved" or "default" (window layer)
    failed,      \* 0, or the number (1..8) of the setup step that returned Err
    calls,       \* window / app calls made by the last handler invocation
    last,        \* the last menu event dispatched and how its call went
    n,           \* number of menu events dispatched
    hits,        \* per emitting identifier, dispatches that found "main"
    okHits,      \* per emitting identifier, dispatches whose emit returned Ok
    steady,      \* "main" existed at every step so far and no show/hide failed
    initVisible, \* whether "main" was shown in the initial state
    lastSH       \* the last of "show"/"hide" dispatched, "none" before

sysVars == <<pc, plugins, items, menu, tray, windows, visible, inbox, exitCode,
             loginItem, clickMode, position>>
histVars == <<failed, calls, last, n, hits, okHits, steady, initVisible, lastSH>>
vars == <<pc, plugins, items, menu, tray, windows, visible, inbox, exitCode,
          loginItem, clickMode, position, failed,
          calls, last, n, hits, okHits, steady, initVisible, lastSH>>

NoEvent == [id |-> "", found |-> FALSE, ok |-> TRUE]

Init ==
    /\ pc = "setup"
    /\ plugins = {"autostart"}
    /\ items = <<>>
    /\ menu = <<>>
    /\ tray = <<>>
    /\ windows \in SUBSET Labels
    /\ visible \in SUBSET windows
    /\ inbox = [l \in Labels |-> <<>>]
    /\ exitCode = <<>>
    /\ loginItem \in BOOLEAN
    /\ clickMode = FALSE
    /\ position = "default"
    /\ failed = 0
    /\ calls = <<>>
    /\ last = NoEvent
    /\ n = 0
    /\ hits = [i \in EmitIds |-> 0]
    /\ okHits = [i \in EmitIds |-> 0]
    /\ steady = ("main" \in windows)
    /\ initVisible = ("main" \in visible)
    /\ lastSH = "none"


(***************************************************************************)
(* The setup closure (lines 14-63).  Every step ends in `?`: a step either *)
(* succeeds and the closure goes on, or SetupError ends it.                *)
(***************************************************************************)

\* MenuItem::with_id(app, id, text, true, None): the next let-binding.
CreateItem ==
    /\ pc = "setup"
    /\ Len(items) < Len(ItemOrder)
    /\ items' = Append(items, ItemOrder[Len(items) + 1])
    /\ UNCHANGED <<pc, plugins, menu, tray, windows, visible, inbox, exitCode,
                   loginItem, clickMode, position>>
    /\ UNCHANGED histVars

\* Faulty variant of MenuList: two neighbours of the slice are swapped.
MenuListSwapped == <<items[1], items[2], items[4], items[3], items[5], items[6]>>

\* The slice &[&show, &hide, &click_through, &reset_pos, &autostart, &quit].
MenuList == <<items[1], items[2], items[3], items[4], items[5], items[6]>>

\* Menu::with_items(app, &[...]).
CreateMenu ==
    /\ pc = "setup"
    /\ Len(items) = Len(ItemOrder)
    /\ menu = <<>>
    /\ menu' = MenuList
    /\ UNCHANGED <<pc, plugins, items, tray, windows, visible, inbox, exitCode,
                   loginItem, clickMode, position>>
    /\ UNCHANGED histVars

\* TrayIconBuilder::new().menu(&menu).on_menu_event(..).build(app)?; Ok(())
\* From here on the handler is registered and the event loop runs.
BuildTray ==
    /\ pc = "setup"
    /\ menu # <<>>
    /\ tray = <<>>
    /\ tray' = menu
    /\ pc' = "running"
    /\ UNCHANGED <<plugins, items, menu, windows, visible, inbox, exitCode,
                   loginItem, clickMode, position>>
    /\ UNCHANGED histVars

\* The setup step at hand: 1..6 the items, 7 the menu, 8 the tray icon.
SetupStep ==
    IF Len(items) < Len(ItemOrder) THEN Len(items) + 1
    ELSE IF menu = <<>> THEN Len(ItemOrder) + 1
    ELSE Len(ItemOrder) + 2

\* Faulty variant of SetupError: the Err is dropped and the closure goes on.
SetupErrorIgnored ==
    /\ pc = "setup"
    /\ failed = 0
    /\ failed' = SetupStep
    /\ UNCHANGED <<pc, plugins, items, menu, tray, windows, visible, inbox,
                   exitCode, loginItem, clickMode, position>>
    /\ UNCHANGED <<calls, last, n, hits, okHits, steady, initVisible, lastSH>>

\* The step at hand returns Err: `?` leaves the closure, no later step runs,
\* and the application start fails (run(..).expect(..)).
SetupError ==
    /\ pc = "setup"
    /\ pc' = "aborted"
    /\ failed' = SetupStep
    /\ UNCHANGED <<plugins, items, menu, tray, windows, visible, inbox,
                   exitCode, loginItem, clickMode, position>>
    /\ UNCHANGED <<calls, last, n, hits, okHits, steady, initVisible, lastSH>>

(***************************************************************************)
(* The calls the handler makes.                                            *)
(***************************************************************************)

\* app.get_webview_window(label): <<label>> for Some(window), <<>> for None.
get_webview_window(label) == IF label \in windows THEN <<label>> ELSE <<>>

\* window.show(): the visible set after the call.
window_show(w, ok) == IF ok THEN visible \cup {w} ELSE visible

\* Faulty variant of window_hide: the call toggles the visibility.
window_hide_toggles(w, ok) ==
    IF ~ok THEN visible
    ELSE IF w \in visible THEN visible \ {w} ELSE visible \cup {w}

\* window.hide(): the visible set after the call.
window_hide(w, ok) == IF ok THEN visible \ {w} ELSE visible

\* window.emit(event, payload): the inboxes after the call.  The event goes
\* to every existing event target, not only to the window it is called on.
window_emit(w, event, payload, ok) ==
    IF ok
    THEN [l \in Labels |->
            IF l \in windows
            THEN Append(inbox[l], [event |-> event, payload |-> payload])
            ELSE inbox[l]]
    ELSE inbox

Call(op, target, event, payload) ==
    [op |-> op, target |-> target, event |-> event, payload |-> payload]

(***************************************************************************)
(* The arms of the match in the on_menu_event closure (lines 29-59).  `ok` *)
(* is the Result of the window call the arm makes, discarded by `let _`.   *)
(***************************************************************************)

\* Faulty variant of ShowArm: the arm calls hide.
ShowArmHides(ok) ==
    LET window == get_webview_window("main") IN
    /\ IF window # <<>>
       THEN /\ visible' = window_hide(window[1], ok)
            /\ calls' = <<Call("hide", window[1], "", "")>>
       ELSE /\ UNCHANGED visible
            /\ calls' = <<>>
    /\ UNCHANGED <<pc, plugins, items, menu, tray, windows, inbox, exitCode,
                   loginItem, clickMode, position>>

ShowArm(ok) ==
    LET window == get_webview_window("main") IN
    /\ IF window # <<>>
       THEN /\ visible' = window_show(window[1], ok)
            /\ calls' = <<Call("show", window[1], "", "")>>
       ELSE /\ UNCHANGED visible
            /\ calls' = <<>>
    /\ UNCHANGED <<pc, plugins, items, menu, tray, windows, inbox, exitCode,
                   loginItem, clickMode, position>>

\* Faulty variant of HideArm: the Option is unwrapped, so an absent window
\* panics.
HideArmUnwrap(ok) ==
    LET window == get_webview_window("main") IN
    /\ IF window # <<>>
       THEN /\ visible' = window_hide(window[1], ok)
            /\ calls' = <<Call("hide", window[1], "", "")>>
            /\ UNCHANGED pc
       ELSE /\ UNCHANGED visible
            /\ calls' = <<>>
            /\ pc' = "aborted"
    /\ UNCHANGED <<plugins, items, menu, tray, windows, inbox, exitCode,
                   loginItem, clickMode, position>>

HideArm(ok) ==
    LET window == get_webview_window("main") IN
    /\ IF window # <<>>
       THEN /\ visible' = window_hide(window[1], ok)
            /\ calls' = <<Call("hide", window[1], "", "")>>
       ELSE /\ UNCHANGED visible
            /\ calls' = <<>>
    /\ UNCHANGED <<pc, plugins, items, menu, tray, windows, inbox, exitCode,
                   loginItem, clickMode, position>>

\* Faulty variant of ClickThroughArm: the Result is unwrapped, so a failed
\* emit panics.
ClickThroughArmExpect(ok) ==
    LET window == get_webview_window("main") IN
    /\ IF window # <<>>
       THEN /\ inbox' = window_emit(window[1], "toggle-click-through", Unit, ok)
            /\ calls' = <<Call("emit", window[1], "toggle-click-through", Unit)>>
            /\ pc' = IF ok THEN pc ELSE "aborted"
       ELSE /\ UNCHANGED <<inbox, pc>>
            /\ calls' = <<>>
    /\ UNCHANGED <<plugins, items, menu, tray, windows, visible, exitCode,
                   loginItem, clickMode, position>>

ClickThroughArm(ok) ==
    LET window == get_webview_window("main") IN
    /\ IF window # <<>>
       THEN /\ inbox' = window_emit(window[1], "toggle-click-through", Unit, ok)
            /\ calls' = <<Call("emit", window[1], "toggle-click-through", Unit)>>
       ELSE /\ UNCHANGED inbox
            /\ calls' = <<>>
    /\ UNCHANGED <<pc, plugins, items, menu, tray, windows, visible, exitCode,
                   loginItem, clickMode, position>>

\* Faulty variant of ResetPosArm: the arm emits the name of its neighbour.
ResetPosArmWrongEvent(ok) ==
    LET window == get_webview_window("main") IN
    /\ IF window # <<>>
       THEN /\ inbox' = window_emit(window[1], "toggle-click-through", Unit, ok)
            /\ calls' = <<Call("emit", window[1], "toggle-click-through", Unit)>>
       ELSE /\ UNCHANGED inbox
            /\ calls' = <<>>
    /\ UNCHANGED <<pc, plugins, items, menu, tray, windows, visible, exitCode,
                   loginItem, clickMode, position>>

ResetPosArm(ok) ==
    LET window == get_webview_window("main") IN
    /\ IF window # <<>>
       THEN /\ inbox' = window_emit(window[1], "reset-position", Unit, ok)
            /\ calls' = <<Call("emit", window[1], "reset-position", Unit)>>
       ELSE /\ UNCHANGED inbox
            /\ calls' = <<>>
    /\ UNCHANGED <<pc, plugins, items, menu, tray, windows, visible, exitCode,
                   loginItem, clickMode, position>>

\* Faulty variant of AutostartArm: the arm also flips the login item itself.
AutostartArmToggles(ok) ==
    LET window == get_webview_window("main") IN
    /\ IF window # <<>>
       THEN /\ inbox' = window_emit(window[1], "toggle-autostart", Unit, ok)
            /\ calls' = <<Call("emit", window[1], "toggle-autostart", Unit)>>
       ELSE /\ UNCHANGED inbox
            /\ calls' = <<>>
    /\ loginItem' = ~loginItem
    /\ UNCHANGED <<pc, plugins, items, menu, tray, windows, visible, exitCode,
                   clickMode, position>>

AutostartArm(ok) ==
    LET window == get_webview_window("main") IN
    /\ IF window # <<>>
       THEN /\ inbox' = window_emit(window[1], "toggle-autostart", Unit, ok)
            /\ calls' = <<Call("emit", window[1], "toggle-autostart", Unit)>>
       ELSE /\ UNCHANGED inbox
            /\ calls' = <<>>
    /\ UNCHANGED <<pc, plugins, items, menu, tray, windows, visible, exitCode,
                   loginItem, clickMode, position>>

\* Faulty variant of QuitArm: the process exits with code 1.
QuitArmCode1 ==
    /\ pc' = "exited"
    /\ exitCode' = <<1>>
    /\ calls' = <<Call("exit", "app", "", "1")>>
    /\ UNCHANGED <<plugins, items, menu, tray, windows, visible, inbox,
                   loginItem, clickMode, position>>

\* app.exit(0)
QuitArm ==
    /\ pc' = "exited"
    /\ exitCode' = <<0>>
    /\ calls' = <<Call("exit", "app", "", "0")>>
    /\ UNCHANGED <<plugins, items, menu, tray, windows, visible, inbox,
                   loginItem, clickMode, position>>

\* Faulty variant of WildcardArm: an unknown identifier falls into quit.
WildcardArmExits ==
    /\ pc' = "exited"
    /\ exitCode' = <<0>>
    /\ calls' = <<Call("exit", "app", "", "0")>>
    /\ UNCHANGED <<plugins, items, menu, tray, windows, visible, inbox,
                   loginItem, clickMode, position>>

\* _ => {}
WildcardArm ==
    /\ calls' = <<>>
    /\ UNCHANGED sysVars

\* The identifiers whose arm looks up window "main" and calls it.
WindowIds == {"show", "hide", "click_through", "reset_pos", "autostart"}

\* One invocation of the on_menu_event closure with event.id = id.  `ok` is
\* the outcome of the window call, fixed to TRUE when no call is made.
OnMenuEvent(id, ok) ==
    LET found == get_webview_window("main") # <<>>
        called == id \in WindowIds /\ found
    IN
    /\ pc = "running"
    /\ tray # <<>>
    /\ n < MaxDispatch
    /\ (~called) => ok
    /\ CASE id = "show" -> ShowArm(ok)
         [] id = "hide" -> HideArm(ok)
         [] id = "click_through" -> ClickThroughArm(ok)
         [] id = "reset_pos" -> ResetPosArm(ok)
         [] id = "autostart" -> AutostartArm(ok)
         [] id = "quit" -> QuitArm
         [] OTHER -> WildcardArm
    /\ last' = [id |-> id, found |-> found, ok |-> ok]
    /\ n' = n + 1
    /\ hits' = IF called /\ id \in EmitIds
               THEN [hits EXCEPT ![id] = @ + 1] ELSE hits
    /\ okHits' = IF called /\ id \in EmitIds /\ ok
                 THEN [okHits EXCEPT ![id] = @ + 1] ELSE okHits
    /\ steady' = (steady /\ ~(id \in {"show", "hide"} /\ called /\ ~ok))
    /\ lastSH' = IF id \in {"show", "hide"} THEN id ELSE lastSH
    /\ UNCHANGED <<failed, initVisible>>

(***************************************************************************)
(* The environment: the window layer creates and closes windows and, in    *)
(* response to the notifications it received, toggles the state it owns.   *)
(***************************************************************************)

Alive == pc \in {"setup", "running"}

Received(l, event) == \E k \in 1..Len(inbox[l]) : inbox[l][k].event = event

CreateWindow(l, shown) ==
    /\ Alive
    /\ l \notin windows
    /\ windows' = windows \cup {l}
    /\ visible' = IF shown THEN visible \cup {l} ELSE visible
    /\ UNCHANGED <<pc, plugins, items, menu, tray, inbox, exitCode,
                   loginItem, clickMode, position>>
    /\ UNCHANGED histVars

CloseWindow(l) ==
    /\ Alive
    /\ l \in windows
    /\ windows' = windows \ {l}
    /\ visible' = visible \ {l}
    /\ steady' = (steady /\ l # "main")
    /\ UNCHANGED <<pc, plugins, items, menu, tray, inbox, exitCode,
                   loginItem, clickMode, position>>
    /\ UNCHANGED <<failed, calls, last, n, hits, okHits, initVisible, lastSH>>

WindowToggleAutostart ==
    /\ Alive
    /\ "main" \in windows
    /\ Received("main", "toggle-autostart")
    /\ loginItem' = ~loginItem
    /\ UNCHANGED <<pc, plugins, items, menu, tray, windows, visible, inbox,
                   exitCode, clickMode, position>>
    /\ UNCHANGED histVars

WindowToggleClickThrough ==
    /\ Alive
    /\ "main" \in windows
    /\ Received("main", "toggle-click-through")
    /\ clickMode' = ~clickMode
    /\ UNCHANGED <<pc, plugins, items, menu, tray, windows, visible, inbox,
                   exitCode, loginItem, position>>
    /\ UNCHANGED histVars

WindowResetPosition ==
    /\ Alive
    /\ "main" \in windows
    /\ Received("main", "reset-position")
    /\ position' = IF position = "default" THEN "saved" ELSE "default"
    /\ UNCHANGED <<pc, plugins, items, menu, tray, windows, visible, inbox,
                   exitCode, loginItem, clickMode>>
    /\ UNCHANGED histVars

Next ==
    \/ CreateItem
    \/ CreateMenu
    \/ BuildTray
    \/ SetupError
    \/ \E id \in EventIds, ok \in BOOLEAN : OnMenuEvent(id, ok)
    \/ \E l \in Labels, shown \in BOOLEAN : CreateWindow(l, shown)
    \/ \E l \in Labels : CloseWindow(l)
    \/ WindowToggleAutostart
    \/ WindowToggleClickThrough
    \/ WindowResetPosition

Spec == Init /\ [][Next]_vars

TypeOK ==
    /\ pc \in {"setup", "running", "exited", "aborted"}
    /\ windows \subseteq Labels
    /\ visible \subseteq windows
    /\ n \in 0..MaxDispatch
    /\ Len(calls) <= 1


(***************************************************************************)
(* Vocabulary of the properties.                                           *)
(***************************************************************************)

\* A step that is one invocation of the handler.
DispatchStep == n' = n + 1

\* A step that is one invocation of the handler with this identifier.
Dispatched(id) == DispatchStep /\ last'.id = id

Note(event) == [event |-> event, payload |-> Unit]

\* Number of notifications of that name delivered to the window of label l.
RECURSIVE CountIn(_, _)
CountIn(seq, event) ==
    IF seq = <<>> THEN 0
    ELSE (IF Head(seq).event = event THEN 1 ELSE 0) + CountIn(Tail(seq), event)

\* The dispatch table of the design: the notification each identifier names.
EventOf(id) ==
    CASE id = "click_through" -> "toggle-click-through"
      [] id = "reset_pos" -> "reset-position"
      [] id = "autostart" -> "toggle-autostart"
      [] OTHER -> ""

\* The dispatch table of the design: the one call an identifier stands for.
TableCall(id) ==
    CASE id = "show" -> Call("show", "main", "", "")
      [] id = "hide" -> Call("hide", "main", "", "")
      [] id \in EmitIds -> Call("emit", "main", EventOf(id), Unit)
      [] id = "quit" -> Call("exit", "app", "", "0")
      [] OTHER -> Call("none", "", "", "")

\* C1: for each of the six identifiers one handler invocation makes exactly
\* the call of the dispatch table (none when window "main" is absent), has
\* exactly that call's effect and none of the effects of the other five
\* actions, whatever the window state.
C1_ExactlyOneAction ==
    [][\A id \in WindowIds \cup {"quit"} :
          Dispatched(id) =>
            LET found == "main" \in windows
                done == found /\ last'.ok
            IN
            /\ calls' = IF id = "quit" \/ found THEN <<TableCall(id)>> ELSE <<>>
            /\ visible' = CASE id = "show" /\ done -> visible \cup {"main"}
                            [] id = "hide" /\ done -> visible \ {"main"}
                            [] OTHER -> visible
            /\ inbox'["main"] = IF id \in EmitIds /\ done
                                THEN Append(inbox["main"], Note(EventOf(id)))
                                ELSE inbox["main"]
            /\ pc' = IF id = "quit" THEN "exited" ELSE pc
            /\ exitCode' = IF id = "quit" THEN <<0>> ELSE exitCode
            /\ windows' = windows
      ]_vars

C1_Witness ==
    /\ n >= 2
    /\ last.id = "reset_pos"
    /\ last.found
    /\ last.ok
    /\ calls = <<TableCall("reset_pos")>>

C4_AbsentWindowNoEffect ==
    [][(DispatchStep /\ last'.id \in WindowIds /\ "main" \notin windows) =>
          /\ UNCHANGED sysVars
          /\ calls' = <<>>
          /\ pc' = "running"
          /\ tray' # <<>>
      ]_vars

C4_Witness ==
    /\ last.id \in WindowIds
    /\ ~last.found
    /\ "main" \notin windows
    /\ pc = "running"
    /\ n >= 1

\* C5: a dispatch of an identifier outside the six is a no-op: no call is
\* made, the process neither aborts nor exits, no notification is delivered
\* and the visibility and every other component of the state stay the same.
C5_UnknownIdNoOp ==
    [][(DispatchStep /\ last'.id \notin WindowIds \cup {"quit"}) =>
          /\ UNCHANGED sysVars
          /\ calls' = <<>>
          /\ pc' = "running"
      ]_vars

C5_Witness ==
    /\ last.id = "other"
    /\ pc = "running"
    /\ "main" \in visible
    /\ n >= 1


C6_MenuFixed ==
    (pc \in {"running", "exited"}) =>
        /\ Len(menu) = 6
        /\ [k \in 1..6 |-> menu[k].id] =
              <<"show", "hide", "click_through", "reset_pos", "autostart", "quit">>
        /\ [k \in 1..6 |-> menu[k].text] =
              <<"Show", "Hide", "Toggle Click-Through", "Reset Position",
                "Start at Login", "Quit">>
        /\ \A k \in 1..6 : menu[k].enabled
        /\ \A j, k \in 1..6 : menu[j].id = menu[k].id => j = k
        /\ tray = menu

C6_Witness ==
    /\ pc = "running"
    /\ n >= 2
    /\ Len(menu) = 6
    /\ last.id = "hide"

\* C7: when one of the eight construction steps (six items, menu, tray icon)
\* fails, startup is aborted: the steps after the failed one were not run
\* and never are, the waiting-for-clicks state is never reached and no menu
\* click is ever dispatched.
C7_SetupFailureFatal ==
    /\ [](failed # 0 =>
            /\ pc = "aborted"
            /\ Len(items) = (IF failed <= 6 THEN failed - 1 ELSE 6)
            /\ (failed <= 7) => menu = <<>>
            /\ tray = <<>>
            /\ n = 0
            /\ calls = <<>>
            /\ exitCode = <<>>)
    /\ [][failed # 0 => UNCHANGED <<pc, items, menu, tray, n, calls, last>>]_vars

C7_Witness ==
    /\ failed = 7
    /\ pc = "aborted"
    /\ Len(items) = 6

\* C8: a show, hide or emit call that returns Err on a present window "main"
\* is swallowed like the absent-window case: one call was made and not
\* repeated, the process keeps running with the handler registered, and the
\* state is what it was before the dispatch, so later dispatches are handled
\* as if it had not happened.
C8_FailedCallSwallowed ==
    [][(DispatchStep /\ last'.found /\ ~last'.ok) =>
          /\ last'.id \in WindowIds
          /\ calls' = <<TableCall(last'.id)>>
          /\ pc' = "running"
          /\ UNCHANGED sysVars
      ]_vars

C8_Witness ==
    /\ last.found
    /\ ~last.ok
    /\ last.id = "hide"
    /\ "main" \in visible
    /\ pc = "running"

\* C9: no dispatch changes the login-item registration, the click-through
\* mode, the window position or the registered plugins; an autostart
\* dispatch only emits toggle-autostart; and the call a dispatch makes is a
\* function of the identifier and of whether window "main" exists.
C9_PureDispatcher ==
    [][DispatchStep =>
          /\ UNCHANGED <<loginItem, clickMode, position, plugins>>
          /\ UNCHANGED <<items, menu, tray>>
          /\ calls' = IF last'.id = "quit"
                         \/ (last'.id \in WindowIds /\ "main" \in windows)
                      THEN <<TableCall(last'.id)>>
                      ELSE <<>>
      ]_vars

C9_Witness ==
    /\ last.id = "autostart"
    /\ last.found
    /\ last.ok
    /\ n >= 2
    /\ Received("main", "toggle-autostart")
    /\ calls = <<TableCall("autostart")>>

\* C10: while window "main" has existed throughout, no show/hide call has
\* failed and no quit was dispatched, the window is shown exactly when the
\* last show or hide dispatched was show, or, when neither was dispatched,
\* when it was shown initially; and a show or hide dispatch delivers no
\* notification.
C10_VisibilityFollowsLast ==
    /\ []((steady /\ pc # "exited") =>
            ("main" \in visible <=>
                (lastSH = "show" \/ (lastSH = "none" /\ initVisible))))
    /\ [][(DispatchStep /\ last'.id \in {"show", "hide"}) => inbox' = inbox]_vars

C10_Witness ==
    /\ steady
    /\ pc = "running"
    /\ n >= 3
    /\ lastSH = "hide"
    /\ last.id = "click_through"
    /\ initVisible
    /\ "main" \notin visible

====
